---------------------------- MODULE Spec2Model ----------------------------
(***************************************************************************)
(* Model of src/python/albedo_pix.py (class prep_modis): the zero-aware    *)
(* downsampler (rebin, shrunk), the per-file accumulation                  *)
(* (incrementSamples), the moment computation (calculateStats) and the     *)
(* per-day driver (processAlbedo, runAll).                                 *)
(*                                                                         *)
(* Numbers are exact rationals (a record num/den in lowest terms), so the  *)
(* divisions of the code are divisions here.  Arrays are indexed from 0 as *)
(* in the source.                                                          *)
(***************************************************************************)
EXTENDS Integers, Sequences, FiniteSets, TLC

(***************************************************************************)
(* Bounds of the model.                                                    *)
(***************************************************************************)
MaxNs == 5
MaxNl == 2
MaxCells == 10
MaxPairedCells == 4
MaxShrink == 2
\* nsets, the number of files of a day
MaxFiles == 3
\* the number of bands of a decoded file
NBands == 1
\* the number of calls of incrementSamples on one accumulator
MaxCalls == 2
\* the number of days of a run
MaxDays == 2
\* the largest number of samples and of lines of a file handed to sortDims
MaxExtent == 3

\* values of the cells of the arrays handed to shrunk
FVals == {0, 1, 2}
\* values of the cells of the std-dev array handed to shrunk
SVals == {0, 1, 2}

(***************************************************************************)
(* Exact arithmetic (numpy float arithmetic without rounding).             *)
(***************************************************************************)
RECURSIVE GCD(_, _)
GCD(a, b) == IF b = 0 THEN a ELSE GCD(b, a % b)

Abs(x) == IF x < 0 THEN -x ELSE x

\* what a division by zero leaves in a float array (nan or inf): it compares
\* false with everything and every operation on it gives it back
NaN == [num |-> 0, den |-> 0]

Rat(n, d) ==
    IF d = 0 THEN NaN
    ELSE LET s == IF d < 0 THEN -1 ELSE 1
             g == GCD(Abs(n), Abs(d))
         IN  [num |-> (s * n) \div g, den |-> (s * d) \div g]

R(i) == [num |-> i, den |-> 1]

RAdd(a, b) == Rat(a.num * b.den + b.num * a.den, a.den * b.den)
RSub(a, b) == Rat(a.num * b.den - b.num * a.den, a.den * b.den)
RMul(a, b) == Rat(a.num * b.num, a.den * b.den)
RDiv(a, b) == Rat(a.num * b.den, a.den * b.num)
RLt(a, b) == a.num * b.den < b.num * a.den
RLe(a, b) == a.den # 0 /\ b.den # 0 /\ a.num * b.den <= b.num * a.den
RPos(a) == a.num > 0
RIsZero(a) == a.num = 0 /\ a.den # 0

\* the sum of f[x] over the finite set S
RECURSIVE RSum(_, _)
RSum(f, S) ==
    IF S = {} THEN R(0)
    ELSE LET x == CHOOSE y \in S : TRUE
         IN  RAdd(f[x], RSum(f, S \ {x}))

(***************************************************************************)
(* 2-D arrays: [ns, nl, v] with v[<<s, l>>] for s in 0..ns-1, l in 0..nl-1.*)
(***************************************************************************)
Idx(ns, nl) == (0 .. ns - 1) \X (0 .. nl - 1)

\* an ndarray holds values: the cells are computed once, when it is made
Values(f) == f @@ <<>>

Arr(ns, nl, f) == [ns |-> ns, nl |-> nl, v |-> Values(f)]

\* an exception leaving a function: the name of the exception, or NoErr
NoErr == "none"
Raise(e) == [err |-> e]
Ok(x) == [err |-> NoErr, val |-> x]

(***************************************************************************)
(* rebin(a, shape), lines 997-1003:                                        *)
(*   sh = shape[0], a.shape[0]//shape[0], shape[1], a.shape[1]//shape[1]   *)
(*   return a.reshape(sh).mean(-1).mean(1)                                 *)
(* a.shape[0]//shape[0] raises ZeroDivisionError when shape[0] is 0;       *)
(* reshape raises ValueError unless the sizes multiply to the array's.     *)
(* reshape is in C order, so element [i, bi, j, bj] is a[i*b0+bi, j*b1+bj] *)
(***************************************************************************)
BlockMean(a, b0, b1, i, j) ==
    LET rowMean(bi) ==
            RDiv(RSum([bj \in 0 .. b1 - 1 |-> a.v[<<i * b0 + bi, j * b1 + bj>>]],
                      0 .. b1 - 1), R(b1))
    IN  RDiv(RSum([bi \in 0 .. b0 - 1 |-> rowMean(bi)], 0 .. b0 - 1), R(b0))

\* mutant of rebin: the trailing remainder is cropped instead of reshape failing
rebinCropping(a, shape) ==
    IF shape[1] = 0 \/ shape[2] = 0 THEN Raise("ZeroDivisionError")
    ELSE LET b0 == a.ns \div shape[1]
             b1 == a.nl \div shape[2]
         IN  Ok(Arr(shape[1], shape[2],
                    [p \in Idx(shape[1], shape[2]) |->
                        BlockMean(a, b0, b1, p[1], p[2])]))

rebin(a, shape) ==
    IF shape[1] = 0 \/ shape[2] = 0 THEN Raise("ZeroDivisionError")
    ELSE LET b0 == a.ns \div shape[1]
             b1 == a.nl \div shape[2]
         IN  IF shape[1] * b0 * shape[2] * b1 # a.ns * a.nl
             THEN Raise("ValueError")
             ELSE Ok(Arr(shape[1], shape[2],
                         [p \in Idx(shape[1], shape[2]) |->
                             BlockMean(a, b0, b1, p[1], p[2])]))

(***************************************************************************)
(* shrunk(fdata, ns, nl, shrink, sdata=None), lines 1006-1080.             *)
(* ns/shrink is Python 2 integer division.  The result is Ok(odata) in     *)
(* plain mode and Ok(<<odata, osdata>>) in paired mode.                    *)
(*                                                                         *)
(* A std-dev array (sdata, osdata) is held as the array of its squares, so *)
(* that the square root of line 1069 stays exact: Sq(x) is x**2 of such a  *)
(* cell and SqrtOf(x) the cell of np.sqrt(x).                                *)
(***************************************************************************)
Sq(x) == x
SqrtOf(x) == x

\* Python None where an array is expected
None == [ns |-> 0, nl |-> 0, v |-> <<>>]

\* mutant of shrunkPlain: lines 1073-1078 are left out, zeros are averaged in
shrunkPlainKeepingZeros(fdata, ns, nl, shrink) ==
    rebin(fdata, <<ns \div shrink, nl \div shrink>>)

\* lines 1072-1080: the plain mode
shrunkPlain(fdata, ns, nl, shrink) ==
    LET odata == rebin(fdata, <<ns \div shrink, nl \div shrink>>)
        mdata == Arr(fdata.ns, fdata.nl,
                     [p \in Idx(fdata.ns, fdata.nl) |->
                         IF RIsZero(fdata.v[p]) THEN R(0) ELSE R(1)])
        n     == rebin(mdata, <<ns \div shrink, nl \div shrink>>)
    IN  IF odata.err # NoErr THEN odata
        ELSE IF n.err # NoErr THEN n
        ELSE Ok(Arr(odata.val.ns, odata.val.nl,
                    [p \in Idx(odata.val.ns, odata.val.nl) |->
                        IF RPos(n.val.v[p]) /\ RLt(n.val.v[p], R(1))
                        THEN RDiv(odata.val.v[p], n.val.v[p])
                        ELSE odata.val.v[p]]))

\* mutant of shrunkPaired: line 1054, var[fdata==0] = 0., is left out
shrunkPairedKeepingZeros(fdata, ns, nl, shrink, sdata) ==
    LET I      == Idx(fdata.ns, fdata.nl)
        var    == [p \in I |-> Sq(sdata.v[p])]
        vscale == Arr(fdata.ns, fdata.nl,
                      [p \in I |-> IF RPos(var[p]) THEN RDiv(R(1), var[p]) ELSE R(0)])
        idata  == Arr(fdata.ns, fdata.nl,
                      [p \in I |-> RMul(fdata.v[p], vscale.v[p])])
        shrunkData == rebin(idata, <<ns \div shrink, nl \div shrink>>)
        shrunkVar  == rebin(vscale, <<ns \div shrink, nl \div shrink>>)
        mdata  == Arr(fdata.ns, fdata.nl,
                      [p \in I |-> IF RPos(var[p]) THEN R(1) ELSE R(0)])
        n      == rebin(mdata, <<ns \div shrink, nl \div shrink>>)
    IN  IF shrunkData.err # NoErr THEN shrunkData
        ELSE IF shrunkVar.err # NoErr THEN shrunkVar
        ELSE IF n.err # NoErr THEN n
        ELSE LET J == Idx(shrunkData.val.ns, shrunkData.val.nl)
                 w(p) == RPos(shrunkVar.val.v[p])
             IN  Ok(<<Arr(shrunkData.val.ns, shrunkData.val.nl,
                          [p \in J |-> IF w(p)
                                       THEN RDiv(shrunkData.val.v[p], shrunkVar.val.v[p])
                                       ELSE R(0)]),
                      Arr(shrunkData.val.ns, shrunkData.val.nl,
                          [p \in J |-> IF w(p)
                                       THEN SqrtOf(RDiv(n.val.v[p], shrunkVar.val.v[p]))
                                       ELSE R(0)])>>)

\* lines 1052-1070: the paired mode (mean array and std-dev array)
shrunkPaired(fdata, ns, nl, shrink, sdata) ==
    LET I      == Idx(fdata.ns, fdata.nl)
        \* var = sdata**2 ; var[fdata==0] = 0.
        var    == [p \in I |-> IF RIsZero(fdata.v[p]) THEN R(0) ELSE Sq(sdata.v[p])]
        vscale == Arr(fdata.ns, fdata.nl,
                      [p \in I |-> IF RPos(var[p]) THEN RDiv(R(1), var[p]) ELSE R(0)])
        idata  == Arr(fdata.ns, fdata.nl,
                      [p \in I |-> RMul(fdata.v[p], vscale.v[p])])
        shrunkData == rebin(idata, <<ns \div shrink, nl \div shrink>>)
        shrunkVar  == rebin(vscale, <<ns \div shrink, nl \div shrink>>)
        mdata  == Arr(fdata.ns, fdata.nl,
                      [p \in I |-> IF RPos(var[p]) THEN R(1) ELSE R(0)])
        n      == rebin(mdata, <<ns \div shrink, nl \div shrink>>)
    IN  IF shrunkData.err # NoErr THEN shrunkData
        ELSE IF shrunkVar.err # NoErr THEN shrunkVar
        ELSE IF n.err # NoErr THEN n
        ELSE LET J == Idx(shrunkData.val.ns, shrunkData.val.nl)
                 w(p) == RPos(shrunkVar.val.v[p])
             IN  Ok(<<Arr(shrunkData.val.ns, shrunkData.val.nl,
                          [p \in J |-> IF w(p)
                                       THEN RDiv(shrunkData.val.v[p], shrunkVar.val.v[p])
                                       ELSE R(0)]),
                      Arr(shrunkData.val.ns, shrunkData.val.nl,
                          [p \in J |-> IF w(p)
                                       THEN SqrtOf(RDiv(n.val.v[p], shrunkVar.val.v[p]))
                                       ELSE R(0)])>>)

\* mutant of shrunk: lines 1047-1051 are left out
shrunkWithoutShortcut(fdata, ns, nl, shrink, sdata) ==
    IF sdata # None THEN shrunkPaired(fdata, ns, nl, shrink, sdata)
    ELSE shrunkPlain(fdata, ns, nl, shrink)

shrunk(fdata, ns, nl, shrink, sdata) ==
    IF shrink = 1
    THEN IF sdata # None THEN Ok(<<fdata, sdata>>) ELSE Ok(fdata)
    ELSE IF sdata # None THEN shrunkPaired(fdata, ns, nl, shrink, sdata)
    ELSE shrunkPlain(fdata, ns, nl, shrink)


(***************************************************************************)
(* The accumulator of one coverage class (allocateData, lines 668-681):    *)
(*   n        float[nsets, nb, ns, nl, 3]                                  *)
(*   data     float[nsets, nb, ns, nl, 3]                                  *)
(*   nSamples int  [nsets, nb, ns, nl]                                     *)
(* held as [n, data, nSamples], each a function of the file index f in     *)
(* 0..nsets-1, then of the cell <<b, s, l, k>> (nSamples: of the pixel     *)
(* <<b, s, l>>).                                                           *)
(***************************************************************************)
NParams == 3

CellsOf(pix) == {<<p[1], p[2], p[3], k>> : p \in pix, k \in 0 .. NParams - 1}
PixOf(c) == <<c[1], c[2], c[3]>>
PixIdx(nb, ns, nl) == (0 .. nb - 1) \X (0 .. ns - 1) \X (0 .. nl - 1)

allocateData(nb, ns, nl, nsets, flag) ==
    IF flag = 0
    THEN [n        |-> [f \in 0 .. nsets - 1 |-> [c \in CellsOf(PixIdx(nb, ns, nl)) |-> R(0)]],
          data     |-> [f \in 0 .. nsets - 1 |-> [c \in CellsOf(PixIdx(nb, ns, nl)) |-> R(0)]],
          nSamples |-> [f \in 0 .. nsets - 1 |-> [p \in PixIdx(nb, ns, nl) |-> 0]]]
    ELSE [n |-> -1, data |-> -1, nSamples |-> -1]

(***************************************************************************)
(* calculateStats(sumData), lines 951-994, with self.minvar and            *)
(* self.maxvar the attributes the caller has set on the object.            *)
(*                                                                         *)
(* sdData is held as the array of its squares (see shrunk), so np.sqrt of  *)
(* line 987 is SqrtOf; np.sqrt(self.minvar) of line 979 is stored in a     *)
(* variance array, so it is the number ISqrt(minvar).                      *)
(***************************************************************************)
\* the square root of a perfect square
ISqrt(x) == CHOOSE r \in 0 .. x : r * r = x

\* mutant of meanCell: the weighted sum is not divided by the total weight
meanCellUndivided(ww, total, ntot) ==
    IF ww THEN total ELSE R(0)

\* lines 969-970, for one cell: ww is sumN > 0 at its pixel
meanCell(ww, total, ntot) ==
    IF ww THEN RDiv(total, ntot) ELSE R(0)

\* mutant of storeCell: the floor is stored at every pixel
storeCellEverywhere(ww, var, minvar) ==
    IF RPos(var) THEN var ELSE R(ISqrt(minvar))

\* lines 978-980, for one cell: ww is sumN > 0 at its pixel
storeCell(ww, var, minvar) ==
    IF RPos(var) THEN var
    ELSE IF ww THEN R(ISqrt(minvar))
    ELSE R(0)

\* mutant of correctCell: the naive variance, var / ntot
correctCellNaive(ntot, num, store) ==
    IF RPos(num) THEN RDiv(store, ntot) ELSE store

\* lines 983-985, for one cell: the small number correction
correctCell(ntot, num, store) ==
    IF RPos(num) THEN RDiv(RMul(ntot, store), num) ELSE store

calculateStats(sumData, minvar, maxvar) ==
    LET n        == sumData.n
        data     == sumData.data
        nSamples == sumData.nSamples
        F        == DOMAIN n
        C        == DOMAIN n[0]
        \* lines 958-959
        sumN     == [p \in DOMAIN nSamples[0] |->
                        RSum([f \in F |-> R(nSamples[f][p])], F)]
        ww(c)    == RPos(sumN[PixOf(c)])
        \* lines 966-970
        total    == [c \in C |-> RSum([f \in F |-> RMul(data[f][c], n[f][c])], F)]
        ntot     == [c \in C |-> RSum([f \in F |-> n[f][c]], F)]
        ntot2    == [c \in C |-> RSum([f \in F |-> RMul(n[f][c], n[f][c])], F)]
        meanData == [c \in C |-> meanCell(ww(c), total[c], ntot[c])]
        \* lines 971-973
        d2(f, c) == LET diff == RSub(data[f][c], meanData[c])
                    IN  RMul(n[f][c], RMul(diff, diff))
        var      == [c \in C |-> RSum([f \in F |-> d2(f, c)], F)]
        \* lines 978-981
        store    == [c \in C |-> storeCell(ww(c), var[c], minvar)]
        \* lines 983-985
        num      == [c \in C |-> RSub(RMul(ntot[c], ntot[c]), ntot2[c])]
        var2     == [c \in C |-> correctCell(ntot[c], num[c], store[c])]
        \* line 987
        sdData   == [c \in C |-> SqrtOf(var2[c])]
        \* lines 988-992: sdData[ww] is a copy (fancy indexing), and the two
        \* assignments write into copies of it: sdData itself is not changed
    IN  [ntot |-> ntot, meanData |-> meanData, sdData |-> sdData]

(***************************************************************************)
(* incrementSamples(sumData, samples, isSnow, index), lines 717-777.       *)
(* samples is the decoded file as the function reads it:                   *)
(*   ns, nl, nb, N[ns, nl] (the weight), isSnow[ns, nl] (1 snow, 0 no      *)
(*   snow, -1 no data), data[nb, ns, nl, 3].                               *)
(* The result is Raise(e) when the call raises (sumData is then as it      *)
(* was: samplesN is a copy) and Ok(sumData) when it returns.               *)
(***************************************************************************)
\* mutant of filteredN: the combined class keeps the pixels without snow code
filteredNKeepingNoData(samples, isSnow) ==
    Values([p \in Idx(samples.ns, samples.nl) |->
               IF \/ isSnow = 0 /\ samples.isSnow[p] # 0
                  \/ isSnow = 1 /\ samples.isSnow[p] # 1
               THEN R(0)
               ELSE samples.N[p]])

\* mutant of filteredN: the snow class drops the no-snow pixels only
filteredNSnowOrNoData(samples, isSnow) ==
    Values([p \in Idx(samples.ns, samples.nl) |->
               IF \/ isSnow = 0 /\ samples.isSnow[p] # 0
                  \/ isSnow = 1 /\ samples.isSnow[p] = 0
                  \/ isSnow \notin {0, 1} /\ samples.isSnow[p] = -1
               THEN R(0)
               ELSE samples.N[p]])

\* lines 722-734: samplesN, the weight with the unwanted pixels set to 0
filteredN(samples, isSnow) ==
    Values([p \in Idx(samples.ns, samples.nl) |->
               IF \/ isSnow = 0 /\ samples.isSnow[p] # 0
                  \/ isSnow = 1 /\ samples.isSnow[p] # 1
                  \/ isSnow \notin {0, 1} /\ samples.isSnow[p] = -1
               THEN R(0)
               ELSE samples.N[p]])

\* lines 736-739: the pixels with f0 summed over the bands <= 0 and samplesN > 0
zeroF0(samples, samplesN) ==
    {p \in Idx(samples.ns, samples.nl) :
        /\ RLe(RSum([b \in 0 .. samples.nb - 1 |-> samples.data[<<b, p[1], p[2], 0>>]],
                    0 .. samples.nb - 1), R(0))
        /\ RPos(samplesN[p])}

\* lines 768-769: the shrunk data divided by the shrunk weight where that is
\* positive; Raise(e) when a call of shrunk raised
renormalise(sweight, sdata) ==
    IF sweight.err # NoErr THEN sweight
    ELSE IF sdata.err # NoErr THEN sdata
    ELSE Ok([sweight |-> sweight.val.v,
             sdata   |-> Values([p \in DOMAIN sdata.val.v |->
                                    IF RPos(sweight.val.v[p])
                                    THEN RDiv(sdata.val.v[p], sweight.val.v[p])
                                    ELSE sdata.val.v[p]])])

\* mutant of shrinkPlane: the data is shrunk without its weight
shrinkPlaneUnweighted(samples, samplesN, i, j, shrink) ==
    renormalise(shrunk(Arr(samples.ns, samples.nl, samplesN),
                       samples.ns, samples.nl, shrink, None),
                shrunk(Arr(samples.ns, samples.nl,
                           [p \in Idx(samples.ns, samples.nl) |->
                               samples.data[<<i, p[1], p[2], j>>]]),
                       samples.ns, samples.nl, shrink, None))

\* lines 752-769: the shrunk weight and the shrunk, re-normalised data of
\* band i, parameter j
shrinkPlane(samples, samplesN, i, j, shrink) ==
    renormalise(shrunk(Arr(samples.ns, samples.nl, samplesN),
                       samples.ns, samples.nl, shrink, None),
                shrunk(Arr(samples.ns, samples.nl,
                           [p \in Idx(samples.ns, samples.nl) |->
                               RMul(samples.data[<<i, p[1], p[2], j>>], samplesN[p])]),
                       samples.ns, samples.nl, shrink, None))

\* mutant of storeSlot: the slot is added to, not overwritten
storeSlotAdding(sumData, index, planes) ==
    [n        |-> [sumData.n EXCEPT ![index] =
                      [c \in DOMAIN @ |-> RAdd(@[c], planes[<<c[1], c[4]>>].val.sweight[<<c[2], c[3]>>])]],
     nSamples |-> [sumData.nSamples EXCEPT ![index] =
                      [p \in DOMAIN @ |->
                          @[p] + (IF RPos(planes[<<p[1], 0>>].val.sweight[<<p[2], p[3]>>]) THEN 1 ELSE 0)]],
     data     |-> [sumData.data EXCEPT ![index] =
                      [c \in DOMAIN @ |-> RAdd(@[c], planes[<<c[1], c[4]>>].val.sdata[<<c[2], c[3]>>])]]]

\* lines 772-775: planes[<<i, j>>] stored at index
storeSlot(sumData, index, planes) ==
    [n        |-> [sumData.n EXCEPT ![index] =
                      [c \in DOMAIN @ |-> planes[<<c[1], c[4]>>].val.sweight[<<c[2], c[3]>>]]],
     nSamples |-> [sumData.nSamples EXCEPT ![index] =
                      [p \in DOMAIN @ |->
                          IF RPos(planes[<<p[1], 0>>].val.sweight[<<p[2], p[3]>>]) THEN 1 ELSE 0]],
     data     |-> [sumData.data EXCEPT ![index] =
                      [c \in DOMAIN @ |-> planes[<<c[1], c[4]>>].val.sdata[<<c[2], c[3]>>]]]]

\* lines 764-775: the planes are stored unless a call of shrunk raised
storePlanes(sumData, index, planes) ==
    LET failed == {bk \in DOMAIN planes : planes[bk].err # NoErr}
    IN  IF failed # {}
        THEN planes[CHOOSE bk \in failed :
                       \A o \in failed : bk[1] < o[1] \/ (bk[1] = o[1] /\ bk[2] <= o[2])]
        ELSE Ok(storeSlot(sumData, index, planes))

\* lines 736-777, with samplesN of lines 722-734
incrementFiltered(sumData, samples, samplesN, index, shrink) ==
    \* lines 740-744: self.ogging is no attribute of the object
    IF zeroF0(samples, samplesN) # {} THEN Raise("AttributeError")
    \* lines 748-750
    ELSE IF RIsZero(RSum(samplesN, DOMAIN samplesN)) THEN Ok(sumData)
    ELSE storePlanes(sumData, index,
                     Values([bk \in (0 .. samples.nb - 1) \X (0 .. NParams - 1) |->
                                shrinkPlane(samples, samplesN, bk[1], bk[2], shrink)]))

incrementSamples(sumData, samples, isSnow, index, shrink) ==
    incrementFiltered(sumData, samples, filteredN(samples, isSnow), index, shrink)

(***************************************************************************)
(* State.                                                                  *)
(***************************************************************************)
VARIABLES
    \* a call of shrunk: its arguments and what it returned
    fdata, sdata, shrink, ret,
    \* an accumulator, and self.minvar, self.maxvar
    sumData, minvar, maxvar,
    \* what calculateStats returned: [ntot, meanData, sdData]
    stats,
    \* the coverage class of the accumulator (the isSnow argument), the number
    \* of calls of incrementSamples made on it, and the last of them:
    \* [samples, index, err, before] (before: sumData when it was made)
    cls, ncalls, last,
    \* a call of processAlbedo for one day: what getModisAlbedo gives for each
    \* file getValidFiles found, whether the program runs where the module
    \* global weighting is defined, self.ip.dontsnow / dontnosnow /
    \* dontwithsnow, the position in the function, its locals (iFile is the
    \* loop variable i), what it
    \* returned, and what runAll did with that
    a1Files, legacy, dont, pc, thisOne, thisData, iFile, totalSnow, land,
    sumDataSnow, sumDataNoSnow, sumDataWithSnow, result, day,
    \* a call of getModisAlbedo: the contents of the two HDF files, the
    \* arguments snow, no_snow and backupscale, and what the call returned
    hdf, opts, retval,
    \* one decoded file accumulated for the three coverage classes: the file
    \* as it was given, and for the classes called so far how the call ended
    given, classesDone,
    \* a call of runAll: self.ip.clean, the days of the loop of line 1299
    \* (for each whether its stored output can be read and what processAlbedo
    \* does for it), the number of days the loop has done, the local ok, the
    \* days processAlbedo was called for, and the <<day, class>> written
    clean, doyList, doyIdx, ok, invoked, written,
    \* a call of sortDims: its arguments and what it returned
    ip, op, dims

shrunkVars == <<fdata, sdata, shrink, ret>>
statVars == <<sumData, minvar, maxvar, stats>>
accVars == <<cls, ncalls, last>>
dayVars == <<a1Files, legacy, dont, pc, thisOne, thisData, iFile, totalSnow, land,
             sumDataSnow, sumDataNoSnow, sumDataWithSnow, result, day>>
decVars == <<hdf, opts, retval>>
clsVars == <<given, classesDone>>
runVars == <<clean, doyList, doyIdx, ok, invoked, written>>
dimVars == <<ip, op, dims>>
vars == <<fdata, sdata, shrink, ret, sumData, minvar, maxvar, stats, cls, ncalls, last,
          a1Files, legacy, dont, pc, thisOne, thisData, iFile, totalSnow, land,
          sumDataSnow, sumDataNoSnow, sumDataWithSnow, result, day,
          hdf, opts, retval, given, classesDone,
          clean, doyList, doyIdx, ok, invoked, written, ip, op, dims>>

\* the variables a specification does not use
Unused == [err |-> "unused"]

\* the call has not returned yet
Pending == [err |-> "pending"]

\* no day is processed
NoDay ==
    /\ a1Files = <<>> /\ legacy = FALSE /\ dont = Unused /\ pc = "unused"
    /\ thisOne = 0 /\ thisData = Unused /\ iFile = 0 /\ totalSnow = 0 /\ land = Unused
    /\ sumDataSnow = Unused /\ sumDataNoSnow = Unused /\ sumDataWithSnow = Unused
    /\ result = Unused /\ day = "unused"

\* no file is decoded
NoFile == hdf = Unused /\ opts = Unused /\ retval = Unused

\* no file is accumulated for the three classes
NoClasses == given = Unused /\ classesDone = <<>>

\* runAll is not called
NoRun ==
    /\ clean = FALSE /\ doyList = <<>> /\ doyIdx = 0 /\ ok = TRUE
    /\ invoked = {} /\ written = {}

\* sortDims is not called
NoDims == ip = Unused /\ op = Unused /\ dims = Unused

(***************************************************************************)
(* SpecShrunk: shrunk applied to every small array.                        *)
(***************************************************************************)
Shapes(maxCells) ==
    {sh \in (1 .. MaxNs) \X (1 .. MaxNl) : sh[1] * sh[2] <= maxCells}

InitShrunk ==
    /\ sumData = Unused /\ minvar = 0 /\ maxvar = 0 /\ stats = Unused
    /\ cls = 0 /\ ncalls = 0 /\ last = Unused
    /\ NoDay /\ NoFile /\ NoClasses /\ NoRun /\ NoDims
    /\ shrink \in 1 .. MaxShrink
    /\ ret = Pending
    /\ \/ /\ sdata = None
          /\ \E sh \in Shapes(MaxCells) :
                \E f \in [Idx(sh[1], sh[2]) -> FVals] :
                    fdata = Arr(sh[1], sh[2], [p \in DOMAIN f |-> R(f[p])])
       \/ \E sh \in Shapes(MaxPairedCells) :
            \E f \in [Idx(sh[1], sh[2]) -> FVals], s \in [Idx(sh[1], sh[2]) -> SVals] :
                /\ fdata = Arr(sh[1], sh[2], [p \in DOMAIN f |-> R(f[p])])
                /\ sdata = Arr(sh[1], sh[2], [p \in DOMAIN s |-> R(s[p] * s[p])])

CallShrunk ==
    /\ ret = Pending
    /\ ret' = shrunk(fdata, fdata.ns, fdata.nl, shrink, sdata)
    /\ UNCHANGED <<fdata, sdata, shrink>>
    /\ UNCHANGED <<statVars, accVars, dayVars, decVars, clsVars, runVars, dimVars>>

NextShrunk == CallShrunk

SpecShrunk == InitShrunk /\ [][NextShrunk]_vars

(***************************************************************************)
(* What the claims about shrunk compare its result with.                   *)
(***************************************************************************)
\* the cells of block (i, j) when the blocks are b0 x b1
Block(i, j, b0, b1) ==
    (i * b0 .. i * b0 + b0 - 1) \X (j * b1 .. j * b1 + b1 - 1)

\* the arithmetic mean of a over the cells S
MeanOver(a, S) == RDiv(RSum(a.v, S), R(Cardinality(S)))

\* the arithmetic mean of a over the non-zero cells of S, 0 when there is none
NonZeroMeanOver(a, S) ==
    LET nz == {p \in S : ~RIsZero(a.v[p])}
    IN  IF nz = {} THEN R(0) ELSE RDiv(RSum(a.v, nz), R(Cardinality(nz)))

Returned == ret.err # "pending"
PlainMode == sdata = None
\* the mean array shrunk returned
RetMean == IF PlainMode THEN ret.val ELSE ret.val[1]
NonMultiple == fdata.ns % shrink # 0 \/ fdata.nl % shrink # 0

(* C5 (as claimed): on an extent that is not a multiple of the factor,     *)
(* shrunk does not fail and returns floor(ns/factor) x floor(nl/factor)    *)
(* cells, each the zero-excluding mean of a factor x factor block of the   *)
(* leading rows and columns.                                               *)
C5_TruncatesRemainder ==
    (Returned /\ NonMultiple /\ fdata.ns >= shrink /\ fdata.nl >= shrink) =>
        /\ ret.err = NoErr
        /\ RetMean.ns = fdata.ns \div shrink
        /\ RetMean.nl = fdata.nl \div shrink
        /\ PlainMode =>
             \A p \in Idx(RetMean.ns, RetMean.nl) :
                RetMean.v[p] = NonZeroMeanOver(fdata, Block(p[1], p[2], shrink, shrink))

(* C5 (amended): with qs = floor(ns/factor) and ql = floor(nl/factor), on  *)
(* an extent that is not a multiple of the factor shrunk raises            *)
(* ZeroDivisionError when qs or ql is 0, else ValueError when qs does not  *)
(* divide ns or ql does not divide nl, and else returns qs x ql cells      *)
(* whose blocks are (ns/qs) x (nl/ql): they cover the whole array, no row  *)
(* or column is dropped (plain mode: the cell is the block's zero-         *)
(* excluding mean).                                                        *)
C5_RaisesOrWidensBlocks ==
    (Returned /\ NonMultiple) =>
        LET qs == fdata.ns \div shrink
            ql == fdata.nl \div shrink
        IN  IF qs = 0 \/ ql = 0 THEN ret.err = "ZeroDivisionError"
            ELSE IF fdata.ns % qs # 0 \/ fdata.nl % ql # 0 THEN ret.err = "ValueError"
            ELSE /\ ret.err = NoErr
                 /\ RetMean.ns = qs
                 /\ RetMean.nl = ql
                 /\ PlainMode =>
                      \A p \in Idx(qs, ql) :
                         RetMean.v[p] =
                            NonZeroMeanOver(fdata, Block(p[1], p[2],
                                                         fdata.ns \div qs, fdata.nl \div ql))

\* C5 witness: a 3 x 2 array shrunk by 2 came back as one 3 x 2 block
C5_Witness ==
    /\ Returned /\ PlainMode /\ ret.err = NoErr
    /\ shrink = 2 /\ fdata.ns = 3 /\ fdata.nl = 2
    /\ ~RIsZero(fdata.v[<<2, 0>>])
    /\ RIsZero(fdata.v[<<0, 0>>]) /\ RIsZero(fdata.v[<<0, 1>>])
    /\ RIsZero(fdata.v[<<1, 0>>]) /\ RIsZero(fdata.v[<<1, 1>>])

\* the blocks of the result in which every sub-cell has the same positive variance
EqualVarBlocks ==
    {p \in Idx(RetMean.ns, RetMean.nl) :
        \E v \in {sdata.v[c] : c \in DOMAIN sdata.v} :
            /\ RPos(v)
            /\ \A c \in Block(p[1], p[2], shrink, shrink) : sdata.v[c] = v}

PairedDone ==
    /\ Returned /\ ~PlainMode /\ ret.err = NoErr /\ ~NonMultiple

(* C8 (as claimed): paired-mode shrunk on a block whose sub-cells all have *)
(* the same positive variance returns the plain arithmetic mean of all the *)
(* block's sub-cell means.                                                 *)
C8_EqualVarIsPlainMean ==
    PairedDone =>
        \A p \in EqualVarBlocks :
            RetMean.v[p] = MeanOver(fdata, Block(p[1], p[2], shrink, shrink))

(* C8 (amended): on such a block paired-mode shrunk returns the arithmetic *)
(* mean of the block's non-zero sub-cell means (0 when all are zero): a    *)
(* sub-cell whose mean value is 0 gets weight 0 whatever its variance.     *)
C8_EqualVarIsNonZeroMean ==
    PairedDone =>
        \A p \in EqualVarBlocks :
            RetMean.v[p] = NonZeroMeanOver(fdata, Block(p[1], p[2], shrink, shrink))

\* C8 witness: a 2 x 2 block of equal variance with a zero and a non-zero mean
C8_Witness ==
    /\ PairedDone /\ shrink = 2
    /\ <<0, 0>> \in EqualVarBlocks
    /\ RIsZero(fdata.v[<<0, 0>>]) /\ ~RIsZero(fdata.v[<<1, 1>>])

(***************************************************************************)
(* SpecStats: calculateStats on the accumulator of one reduced pixel       *)
(* (nb = ns = nl = 1, three kernel parameters) after nsets files.  A slot  *)
(* is as incrementSamples leaves it: untouched (all zero), or one weight   *)
(* for the three parameters, nSamples 1 and the data of the file.          *)
(***************************************************************************)
\* weights a slot can hold (a shrunk weight is a mean of weights)
SlotWeights == {R(1), R(2), Rat(3, 2)}
\* data a slot can hold: <<f0, f1, f2>>
SlotData == {<<1, 0, 2>>, <<2, 1, 1>>, <<3, 3, 0>>}
\* self.minvar and self.maxvar: perfect squares
MinVars == {1, 4}
MaxVars == {4, 16}

StatPix == PixIdx(1, 1, 1)

Slots ==
    {[n |-> [c \in CellsOf(StatPix) |-> R(0)],
      data |-> [c \in CellsOf(StatPix) |-> R(0)],
      nSamples |-> [p \in StatPix |-> 0]]}
    \cup
    {[n |-> [c \in CellsOf(StatPix) |-> w],
      data |-> [c \in CellsOf(StatPix) |-> R(d[c[4] + 1])],
      nSamples |-> [p \in StatPix |-> 1]] : w \in SlotWeights, d \in SlotData}

InitStats ==
    /\ fdata = Unused /\ sdata = Unused /\ shrink = 1 /\ ret = Unused
    /\ cls = 0 /\ ncalls = 0 /\ last = Unused
    /\ NoDay /\ NoFile /\ NoClasses /\ NoRun /\ NoDims
    /\ minvar \in MinVars
    /\ maxvar \in MaxVars
    /\ stats = Pending
    /\ \E nsets \in 1 .. MaxFiles :
         \E sl \in [0 .. nsets - 1 -> Slots] :
            sumData = [n        |-> [f \in 0 .. nsets - 1 |-> sl[f].n],
                       data     |-> [f \in 0 .. nsets - 1 |-> sl[f].data],
                       nSamples |-> [f \in 0 .. nsets - 1 |-> sl[f].nSamples]]

CallCalculateStats ==
    /\ stats = Pending
    /\ stats' = calculateStats(sumData, minvar, maxvar)
    /\ UNCHANGED <<sumData, minvar, maxvar>>
    /\ UNCHANGED <<shrunkVars, accVars, dayVars, decVars, clsVars, runVars, dimVars>>

NextStats == CallCalculateStats

SpecStats == InitStats /\ [][NextStats]_vars

(***************************************************************************)
(* Claims about calculateStats.  sdData holds squares, so stdDev is        *)
(* compared with sqrt(x) by comparing sdData with x.                       *)
(***************************************************************************)
StatsDone == stats # Pending
StatCells == DOMAIN sumData.n[0]
\* the files that contribute to cell c
Contributors(c) == {f \in DOMAIN sumData.n : RPos(sumData.n[f][c])}
TotalWeight(c) == RSum([f \in DOMAIN sumData.n |-> sumData.n[f][c]], DOMAIN sumData.n)

(* C1: calculateStats on an accumulator in which exactly one file          *)
(* contributes to a pixel yields stdDev == sqrt(minVariance) there.        *)
C1_SingleContributorStdDev ==
    StatsDone =>
        \A c \in StatCells :
            Cardinality(Contributors(c)) = 1 => stats.sdData[c] = R(minvar)

(* C2: after calculateStats every pixel with totalWeight > 0 has           *)
(* stdDev <= sqrt(maxVariance).                                            *)
C2_StdDevAtMostMax ==
    StatsDone =>
        \A c \in StatCells :
            RPos(TotalWeight(c)) => RLe(stats.sdData[c], R(maxvar))

(* C3: after calculateStats every pixel with totalWeight > 0 has           *)
(* stdDev >= sqrt(minVariance).                                            *)
C3_StdDevAtLeastMin ==
    StatsDone =>
        \A c \in StatCells :
            RPos(TotalWeight(c)) => RLe(R(minvar), stats.sdData[c])

(***************************************************************************)
(* SpecAccum: calls of incrementSamples on the accumulator of one coverage *)
(* class, for decoded files of 2 x 2 pixels.                               *)
(***************************************************************************)
\* what a pixel of a decoded file can be: its weight N, its snow code and
\* its data <<f0, f1, f2>> (the same in every band)
Pixels ==
    << [N |-> 0, isSnow |-> -1, data |-> <<0, 0, 0>>],   \* masked out by the decoder
       [N |-> 1, isSnow |-> 0,  data |-> <<1, 0, 2>>],   \* no snow, f1 is 0
       [N |-> 2, isSnow |-> 1,  data |-> <<2, 1, 1>>],   \* snow
       [N |-> 1, isSnow |-> 0,  data |-> <<0, 1, 1>>],   \* no snow, f0 is 0
       [N |-> 2, isSnow |-> -1, data |-> <<1, 1, 1>>] >> \* weighted, no-data snow code

AccShape == <<2, 2>>
AccShrinks == {1, 2}
AccFiles == {0}
\* the pixels of Pixels the files hold: to incrementSamples a pixel masked out
\* by the decoder is what the last pixel is (the snow code -1 gives it the
\* weight 0 in every class)
AccKinds == 2 .. 5

\* the pixels of a file in row-major order
Flat(p) == p[1] * AccShape[2] + p[2] + 1

SampleOf(px) ==
    [ns |-> AccShape[1], nl |-> AccShape[2], nb |-> NBands,
     N      |-> [p \in Idx(AccShape[1], AccShape[2]) |-> R(Pixels[px[Flat(p)]].N)],
     isSnow |-> [p \in Idx(AccShape[1], AccShape[2]) |-> Pixels[px[Flat(p)]].isSnow],
     data   |-> [c \in CellsOf(PixIdx(NBands, AccShape[1], AccShape[2])) |->
                    R(Pixels[px[Flat(<<c[2], c[3]>>)]].data[c[4] + 1])]]

\* the decoded files: every choice of pixels up to their order (neither the
\* per-pixel steps nor the block means depend on where a pixel lies)
Samples ==
    {SampleOf(px) : px \in {q \in [1 .. AccShape[1] * AccShape[2] -> AccKinds] :
                               \A i \in 1 .. AccShape[1] * AccShape[2] - 1 : q[i] <= q[i + 1]}}

InitAccum ==
    /\ fdata = Unused /\ sdata = Unused /\ ret = Unused
    /\ minvar = 0 /\ maxvar = 0 /\ stats = Unused
    /\ NoDay /\ NoFile /\ NoClasses /\ NoRun /\ NoDims
    /\ shrink \in AccShrinks
    /\ cls \in {0, 1, 2}
    /\ ncalls = 0
    /\ last = Unused
    \* processAlbedo, lines 885-887
    /\ sumData = allocateData(NBands, AccShape[1] \div shrink, AccShape[2] \div shrink,
                              Cardinality(AccFiles), 0)

CallIncrementSamples ==
    /\ ncalls < MaxCalls
    /\ \E samples \in Samples, index \in AccFiles :
         LET r == incrementSamples(sumData, samples, cls, index, shrink)
         IN  /\ sumData' = IF r.err = NoErr THEN r.val ELSE sumData
             /\ last' = [samples |-> samples, index |-> index, err |-> r.err,
                         before |-> sumData]
    /\ ncalls' = ncalls + 1
    /\ UNCHANGED <<cls, shrink, fdata, sdata, ret, minvar, maxvar, stats>>
    /\ UNCHANGED <<dayVars, decVars, clsVars, runVars, dimVars>>

NextAccum == CallIncrementSamples

SpecAccum == InitAccum /\ [][NextAccum]_vars

(***************************************************************************)
(* Claims about incrementSamples.                                          *)
(***************************************************************************)
\* the accumulator of InitAccum, before any call
Fresh ==
    allocateData(NBands, AccShape[1] \div shrink, AccShape[2] \div shrink,
                 Cardinality(AccFiles), 0)

\* slot index of an accumulator
SlotOf(acc, index) ==
    [n |-> acc.n[index], nSamples |-> acc.nSamples[index], data |-> acc.data[index]]

Called == ncalls >= 1
\* the weight of the last sample after the coverage filter of the class
LastN == filteredN(last.samples, cls)
\* the pixels of the last sample the safety filter is about
LastCorrupt == zeroF0(last.samples, LastN)
\* the last call went as far as the store of lines 772-775
LastStored ==
    /\ Called /\ last.err = NoErr
    /\ ~RIsZero(RSum(LastN, DOMAIN LastN))

LastCleaned ==
    [last.samples EXCEPT !.N = [p \in DOMAIN @ |->
                                   IF p \in LastCorrupt THEN R(0) ELSE @[p]]]

(* C7: a call of incrementSamples on a sample with a pixel whose first     *)
(* kernel parameter summed over the bands is <= 0 while its filtered       *)
(* weight is > 0 completes normally, and the slot holds the sample's other *)
(* valid pixels (the sample with that pixel's weight forced to zero).      *)
C7_SafetyFilterCompletes ==
    (Called /\ LastCorrupt # {}) =>
        /\ last.err = NoErr
        /\ LET cleaned == incrementSamples(last.before, LastCleaned, cls, last.index, shrink)
           IN  cleaned.err = NoErr /\ sumData = cleaned.val

\* sum(w * d) / sum(w) over the pixels S of the last sample, band b, parameter k
WeightedMean(b, k, S) ==
    RDiv(RSum([p \in S |-> RMul(LastN[p], last.samples.data[<<b, p[1], p[2], k>>])], S),
         RSum(LastN, S))

(* C9: after a call of incrementSamples that stored, every reduced cell    *)
(* with positive stored weight holds sum(w*d)/sum(w) over the sub-cells of *)
(* its block, and every cell with zero stored weight holds 0.              *)
C9_StoredIsWeightedMean ==
    LastStored =>
        \A c \in DOMAIN sumData.data[last.index] :
            sumData.data[last.index][c] =
                IF RPos(sumData.n[last.index][c])
                THEN WeightedMean(c[1], c[4], Block(c[2], c[3], shrink, shrink))
                ELSE R(0)

(***************************************************************************)
(* SpecDay: processAlbedo(yearList, doy, sdmins), lines 843-923, for one   *)
(* day, and what runAll does with its result, lines 1350-1353.             *)
(*                                                                         *)
(* a1Files[i + 1] is what getModisAlbedo gives for file i, as processAlbedo*)
(* reads it: err, and for err = 0 the keys ns, nl, nb, nSnow, land and     *)
(* those incrementSamples reads.  Lines 856 and 904 read the module global *)
(* weighting, which the file never assigns: the call raises NameError      *)
(* unless the importing program has defined it (legacy).                   *)
(***************************************************************************)
DayShape == <<1, 1>>
\* the pixels of Pixels a file of a day can hold
DayKinds == 1 .. 4

\* a file that decodes, holding pixel k
decoded(k) ==
    [err |-> 0, ns |-> DayShape[1], nl |-> DayShape[2], nb |-> NBands,
     N      |-> [p \in Idx(DayShape[1], DayShape[2]) |-> R(Pixels[k].N)],
     isSnow |-> [p \in Idx(DayShape[1], DayShape[2]) |-> Pixels[k].isSnow],
     data   |-> [c \in CellsOf(PixIdx(NBands, DayShape[1], DayShape[2])) |->
                    R(Pixels[k].data[c[4] + 1])],
     land   |-> [p \in Idx(DayShape[1], DayShape[2]) |-> IF Pixels[k].N > 0 THEN 1 ELSE 0],
     nSnow  |-> IF Pixels[k].isSnow = 1 THEN 1 ELSE 0]

\* a file that does not decode
undecoded == [err |-> 1]

DayFiles == {undecoded} \cup {decoded(k) : k \in DayKinds}

InitDay ==
    /\ fdata = Unused /\ sdata = Unused /\ ret = Unused
    /\ sumData = Unused /\ minvar = 0 /\ maxvar = 0 /\ stats = Unused
    /\ cls = 0 /\ ncalls = 0 /\ last = Unused
    \* self.ip.shrink
    /\ shrink = 1
    \* line 845
    /\ a1Files \in UNION {[1 .. n -> DayFiles] : n \in 0 .. MaxFiles}
    /\ legacy \in BOOLEAN
    /\ dont \in [dontsnow : {0, 1}, dontnosnow : {0, 1}, dontwithsnow : {0, 1}]
    \* lines 851-852
    /\ pc = "while" /\ thisOne = 0
    /\ thisData = Unused /\ iFile = 0 /\ totalSnow = 0 /\ land = Unused
    /\ sumDataSnow = Unused /\ sumDataNoSnow = Unused /\ sumDataWithSnow = Unused
    /\ result = Pending
    /\ day = "processAlbedo"
    /\ NoFile /\ NoClasses /\ NoRun /\ NoDims

\* lines 854-866: one turn of the loop that looks for a first file that decodes
whileNotFoundOne ==
    /\ pc = "while"
    /\ IF thisOne >= Len(a1Files)
       \* line 855: a1Files[thisOne]
       THEN /\ result' = Raise("IndexError") /\ pc' = "done"
            /\ UNCHANGED <<thisOne, thisData>>
       ELSE IF ~legacy
       \* line 856: weighting[thisOne]
       THEN /\ result' = Raise("NameError") /\ pc' = "done"
            /\ UNCHANGED <<thisOne, thisData>>
       ELSE /\ thisData' = a1Files[thisOne + 1]
            /\ IF thisData'.err # 0
               THEN /\ thisOne' = thisOne + 1
                    \* line 859: a1Files[thisOne] in the warning, before the
                    \* test of line 861
                    /\ IF thisOne' >= Len(a1Files)
                       THEN result' = Raise("IndexError") /\ pc' = "done"
                       ELSE UNCHANGED <<result, pc>>
               ELSE /\ pc' = "allocate"
                    /\ UNCHANGED <<thisOne, result>>
    /\ UNCHANGED <<a1Files, legacy, dont, iFile, totalSnow, land,
                   sumDataSnow, sumDataNoSnow, sumDataWithSnow, day>>
    /\ UNCHANGED <<shrunkVars, statVars, accVars, decVars, clsVars, runVars, dimVars>>

\* lines 868-896
allocate ==
    /\ pc = "allocate"
    /\ LET ns    == thisData.ns
           nl    == thisData.nl
           nb    == thisData.nb
           nsets == Len(a1Files)
       IN  IF nsets = 0
           THEN /\ result' = Ok([processed |-> FALSE, totalSnow |-> 0])
                /\ pc' = "done"
                /\ UNCHANGED <<sumDataSnow, sumDataNoSnow, sumDataWithSnow, land, totalSnow>>
           ELSE /\ sumDataSnow' =
                      allocateData(nb, ns \div shrink, nl \div shrink, nsets, dont.dontsnow)
                /\ sumDataNoSnow' =
                      allocateData(nb, ns \div shrink, nl \div shrink, nsets, dont.dontnosnow)
                /\ sumDataWithSnow' =
                      allocateData(nb, ns \div shrink, nl \div shrink, nsets, dont.dontwithsnow)
                /\ land' = [p \in Idx(ns, nl) |-> FALSE]
                /\ totalSnow' = IF dont.dontsnow = 0 \/ dont.dontwithsnow = 0
                                THEN thisData.nSnow ELSE 0
                /\ pc' = "for"
                /\ UNCHANGED result
    /\ iFile' = 0
    /\ UNCHANGED <<a1Files, legacy, dont, thisOne, thisData, day>>
    /\ UNCHANGED <<shrunkVars, statVars, accVars, decVars, clsVars, runVars, dimVars>>

\* lines 898-920: the turn of the loop for file iFile
forFile ==
    /\ pc = "for" /\ iFile < Len(a1Files)
    \* lines 902-904: file thisOne is not read again
    /\ thisData' = IF iFile # thisOne THEN a1Files[iFile + 1] ELSE thisData
    /\ IF thisData'.err # 0
       THEN /\ iFile' = iFile + 1
            /\ UNCHANGED <<sumDataSnow, sumDataNoSnow, sumDataWithSnow, land, totalSnow,
                           result, pc>>
       ELSE LET rs == IF dont.dontsnow = 0
                      THEN incrementSamples(sumDataSnow, thisData', 1, iFile, shrink)
                      ELSE Ok(sumDataSnow)
                rn == IF dont.dontnosnow = 0
                      THEN incrementSamples(sumDataNoSnow, thisData', 0, iFile, shrink)
                      ELSE Ok(sumDataNoSnow)
                rw == IF dont.dontwithsnow = 0
                      THEN incrementSamples(sumDataWithSnow, thisData', 2, iFile, shrink)
                      ELSE Ok(sumDataWithSnow)
                raised == IF rs.err # NoErr THEN rs.err
                          ELSE IF rn.err # NoErr THEN rn.err
                          ELSE rw.err
            IN  IF raised # NoErr
                THEN /\ result' = Raise(raised) /\ pc' = "done"
                     /\ UNCHANGED <<sumDataSnow, sumDataNoSnow, sumDataWithSnow, land,
                                    totalSnow, iFile>>
                ELSE /\ sumDataSnow' = rs.val
                     /\ sumDataNoSnow' = rn.val
                     /\ sumDataWithSnow' = rw.val
                     /\ land' = [p \in DOMAIN land |-> land[p] \/ thisData'.land[p] = 1]
                     /\ totalSnow' = IF dont.dontsnow = 0 \/ dont.dontwithsnow = 0
                                     THEN totalSnow + thisData'.nSnow ELSE totalSnow
                     /\ iFile' = iFile + 1
                     /\ UNCHANGED <<result, pc>>
    /\ UNCHANGED <<a1Files, legacy, dont, thisOne, day>>
    /\ UNCHANGED <<shrunkVars, statVars, accVars, decVars, clsVars, runVars, dimVars>>

\* line 923
returnProcessed ==
    /\ pc = "for" /\ iFile = Len(a1Files)
    /\ result' = Ok([processed |-> TRUE, totalSnow |-> totalSnow])
    /\ pc' = "done"
    /\ UNCHANGED <<a1Files, legacy, dont, thisOne, thisData, iFile, totalSnow, land,
                   sumDataSnow, sumDataNoSnow, sumDataWithSnow, day>>
    /\ UNCHANGED <<shrunkVars, statVars, accVars, decVars, clsVars, runVars, dimVars>>

\* runAll, lines 1350-1353: an exception of processAlbedo is not caught;
\* the statistics and the output are made only if processed
runAllProcessed ==
    /\ pc = "done" /\ day = "processAlbedo"
    /\ day' = IF result.err # NoErr THEN "raised"
              ELSE IF result.val.processed THEN "finalize"
              ELSE "skipped"
    /\ UNCHANGED <<a1Files, legacy, dont, pc, thisOne, thisData, iFile, totalSnow, land,
                   sumDataSnow, sumDataNoSnow, sumDataWithSnow, result>>
    /\ UNCHANGED <<shrunkVars, statVars, accVars, decVars, clsVars, runVars, dimVars>>

NextDay ==
    \/ whileNotFoundOne
    \/ allocate
    \/ forFile
    \/ returnProcessed
    \/ runAllProcessed

SpecDay == InitDay /\ [][NextDay]_vars

(***************************************************************************)
(* Claims about a day.                                                     *)
(***************************************************************************)
DayDone == pc = "done"
Decodes(f) == a1Files[f + 1].err = 0
FileIdx == 0 .. Len(a1Files) - 1

(* C6: on a day for which no file was found processAlbedo raises nothing   *)
(* and returns processed = False, and runAll makes no statistics and no    *)
(* output for the day.                                                     *)
C6_NoFilesSkipped ==
    (DayDone /\ Len(a1Files) = 0) =>
        /\ result.err = NoErr
        /\ result.val.processed = FALSE
        /\ day \in {"processAlbedo", "skipped"}

\* the accumulator of coverage class c (the isSnow argument) and its flag
SumDataOf(c) == IF c = 1 THEN sumDataSnow ELSE IF c = 0 THEN sumDataNoSnow ELSE sumDataWithSnow
DontOf(c) == IF c = 1 THEN dont.dontsnow ELSE IF c = 0 THEN dont.dontnosnow ELSE dont.dontwithsnow
EnabledClasses == {c \in {0, 1, 2} : DontOf(c) = 0}

\* the accumulator of a day, as allocated
FreshDay ==
    allocateData(NBands, DayShape[1] \div shrink, DayShape[2] \div shrink, Len(a1Files), 0)

\* no file of the day has a pixel the safety filter of incrementSamples catches
NoCorruptPixel ==
    \A f \in FileIdx :
        Decodes(f) => \A c \in {0, 1, 2} :
                         zeroF0(a1Files[f + 1], filteredN(a1Files[f + 1], c)) = {}

NoNaN ==
    \A c \in StatCells :
        stats.ntot[c] # NaN /\ stats.meanData[c] # NaN /\ stats.sdData[c] # NaN

(* C12: after calculateStats every pixel with totalWeight = 0 has mean 0   *)
(* and stdDev 0, and no cell of the result comes from a division by zero,  *)
(* slots left untouched by skipped files included.                         *)
C12_ZeroWeightZeroStats ==
    StatsDone =>
        /\ NoNaN
        /\ \A c \in StatCells :
              RIsZero(TotalWeight(c)) =>
                  stats.meanData[c] = R(0) /\ stats.sdData[c] = R(0)

\* C12 witness: statistics of a pixel to which none of two or more files
\* contributed
C12_Witness ==
    /\ StatsDone
    /\ Cardinality(DOMAIN sumData.n) >= 2
    /\ \A c \in StatCells : RIsZero(TotalWeight(c)) /\ stats.sdData[c] = R(0)

\* plain-mode shrunk has returned an array
PlainDone == Returned /\ PlainMode /\ ret.err = NoErr

(* C13: plain-mode shrunk returns, for every block, the arithmetic mean of *)
(* the block's non-zero sub-cells, and 0 when every sub-cell is zero (the  *)
(* blocks being those rebin makes, shrink x shrink on an extent that is a  *)
(* multiple of shrink).                                                    *)
C13_PlainIsNonZeroMean ==
    PlainDone =>
        \A p \in Idx(RetMean.ns, RetMean.nl) :
            LET S == Block(p[1], p[2], fdata.ns \div RetMean.ns, fdata.nl \div RetMean.nl)
            IN  /\ RetMean.v[p] = NonZeroMeanOver(fdata, S)
                /\ (\A c \in S : RIsZero(fdata.v[c])) => RetMean.v[p] = R(0)
                /\ ~NonMultiple => S = Block(p[1], p[2], shrink, shrink)

\* C13 witness: a 2 x 2 block with three zeros and a 2 came back as 2
C13_Witness ==
    /\ PlainDone /\ shrink = 2 /\ fdata.ns = 2 /\ fdata.nl = 2
    /\ fdata.v[<<0, 0>>] = R(2)
    /\ RIsZero(fdata.v[<<0, 1>>]) /\ RIsZero(fdata.v[<<1, 0>>]) /\ RIsZero(fdata.v[<<1, 1>>])
    /\ RetMean.v[<<0, 0>>] = R(2)

(* C14: shrunk with factor 1 returns its input unchanged: the array in     *)
(* plain mode, the mean array and the std-dev array in paired mode.        *)
C14_FactorOneIsIdentity ==
    (Returned /\ shrink = 1) =>
        /\ ret.err = NoErr
        /\ PlainMode => ret.val = fdata
        /\ ~PlainMode => ret.val = <<fdata, sdata>>

\* C14 witness: a paired call with factor 1 on arrays that the paired mode
\* would have changed (a zero mean with a positive std-dev) came back as given
C14_Witness ==
    /\ Returned /\ shrink = 1 /\ ~PlainMode
    /\ ret.err = NoErr
    /\ \E p \in DOMAIN fdata.v : RIsZero(fdata.v[p]) /\ RPos(sdata.v[p])
    /\ ret.val[2] = sdata

\* sum over the files of weight * data at cell c
WeightedSum(c) ==
    RSum([f \in DOMAIN sumData.n |-> RMul(sumData.n[f][c], sumData.data[f][c])],
         DOMAIN sumData.n)

(* C15: calculateStats returns, at every pixel with totalWeight > 0, the   *)
(* mean (sum over files of weight * data) / (sum over files of weight); a  *)
(* single contributor with data d gives the mean d.                        *)
C15_MeanIsWeightedMean ==
    StatsDone =>
        \A c \in StatCells :
            RPos(TotalWeight(c)) =>
                /\ stats.meanData[c] = RDiv(WeightedSum(c), TotalWeight(c))
                /\ \A f \in Contributors(c) :
                      Contributors(c) = {f} => stats.meanData[c] = sumData.data[f][c]

\* C15 witness: the mean of two contributors of different weight and data
C15_Witness ==
    /\ StatsDone
    /\ \E c \in StatCells : \E f, g \in Contributors(c) :
          /\ sumData.n[f][c] # sumData.n[g][c]
          /\ sumData.data[f][c] # sumData.data[g][c]
          /\ stats.meanData[c] # sumData.data[f][c]
          /\ stats.meanData[c] # sumData.data[g][c]

\* the bias-correction denominator totalWeight^2 - sum(weight^2) at cell c
Denominator(c) ==
    RSub(RMul(TotalWeight(c), TotalWeight(c)),
         RSum([f \in DOMAIN sumData.n |-> RMul(sumData.n[f][c], sumData.n[f][c])],
              DOMAIN sumData.n))

\* the naive weighted variance sum(w * (d - mean)^2) / sum(w) at cell c
NaiveVariance(c) ==
    LET mean == RDiv(WeightedSum(c), TotalWeight(c))
        dev(f) == RSub(sumData.data[f][c], mean)
    IN  RDiv(RSum([f \in DOMAIN sumData.n |-> RMul(sumData.n[f][c], RMul(dev(f), dev(f)))],
                  DOMAIN sumData.n),
             TotalWeight(c))

(* C16: at every pixel where the denominator totalWeight^2 - sum(weight^2) *)
(* is positive and the contributors' data are not all equal, the variance  *)
(* calculateStats returns (stdDev squared) is strictly greater than the    *)
(* naive weighted variance.                                                *)
C16_CorrectedExceedsNaive ==
    StatsDone =>
        \A c \in StatCells :
            (/\ RPos(Denominator(c))
             /\ \E f, g \in Contributors(c) : sumData.data[f][c] # sumData.data[g][c]) =>
                RLt(NaiveVariance(c), stats.sdData[c])

\* C16 witness: data 1 and 3 with weights 1 and 1 gave the mean 2 and the
\* variance 2, above the naive variance 1
C16_Witness ==
    /\ StatsDone
    /\ \E c \in StatCells : \E f, g \in Contributors(c) :
          /\ Contributors(c) = {f, g}
          /\ sumData.n[f][c] = R(1) /\ sumData.n[g][c] = R(1)
          /\ sumData.data[f][c] = R(1) /\ sumData.data[g][c] = R(3)
          /\ stats.meanData[c] = R(2)
          /\ NaiveVariance(c) = R(1)
          /\ stats.sdData[c] = R(2)

(***************************************************************************)
(* getModisAlbedo(fileName, QaFile, bands, snow, no_snow, dataw, sdim,     *)
(* backupscale), lines 460-632.                                            *)
(*                                                                         *)
(* hdf is what the QA file and the data file hold: whether they can be     *)
(* read, ns, nl, and for every pixel the four QA layers (quality, snow,    *)
(* ancillary, bandQuality) and d, the three parameters as the data file    *)
(* stores them (the same in every band).  The result is the dictionary the *)
(* function returns: [error |-> TRUE] when the body raised.                *)
(***************************************************************************)
\* line 514
duff == 32767
\* line 515
oneScale == 1000

RECURSIVE RPow(_, _)
\* a ** n
RPow(a, n) == IF n = 0 THEN R(1) ELSE RMul(a, RPow(a, n - 1))

\* line 548: bits 4-7 of the ancillary layer
landOf(QA) == ((QA % 256) \div 16) % 16

\* mutant of notDeepOcean: deep ocean is kept
anyLand(landCat) == TRUE

\* line 550
notDeepOcean(landCat) == landCat # 7

\* lines 555-565: the two 4-bit qualities read, and the poorer of them
band_quality1(QA) == QA % 16
band_quality2(QA) == (QA \div 16) % 16

\* mutant of band_quality: the quality of the first band alone
band_qualityFirst(QA) == band_quality1(QA)

band_quality(QA) ==
    IF band_quality2(QA) > band_quality1(QA) THEN band_quality2(QA) ELSE band_quality1(QA)

\* lines 606-611
snowFilter(snow, no_snow, snow_mask, no_snow_mask) ==
    IF snow /\ no_snow THEN TRUE
    ELSE IF snow THEN snow_mask
    ELSE IF no_snow THEN no_snow_mask
    ELSE TRUE

\* mutant of maskData: the data is left as read
unmaskedData(x, mask) == x

\* line 623
maskData(x, mask) == IF mask THEN x ELSE R(0)

\* mutant of goodDataOf: the quality of the second band is not tested
goodDataOfFirstBand(px, snow, no_snow) ==
    /\ px.quality # 255
    /\ px.snow # 255
    /\ notDeepOcean(landOf(px.ancillary))
    /\ band_quality1(px.bandQuality) < 4
    /\ \A j \in 1 .. NParams : px.d[j] # duff
    /\ snowFilter(snow, no_snow, px.snow = 1, px.snow = 0)

\* lines 528-590, 606-616: goodData of a pixel when dataw is None
goodDataOf(px, snow, no_snow) ==
    /\ px.quality # 255
    /\ px.snow # 255
    /\ notDeepOcean(landOf(px.ancillary))
    /\ band_quality1(px.bandQuality) < 4
    /\ band_quality2(px.bandQuality) < 4
    /\ \A j \in 1 .. NParams : px.d[j] # duff
    /\ snowFilter(snow, no_snow, px.snow = 1, px.snow = 0)

\* mutant of errorResult: what the body had bound when it raised is returned
\* with the error
errorResultPartial(locals) == [locals EXCEPT !.error = TRUE]

\* lines 630-631: the body raised with the given locals bound
errorResult(locals) == [error |-> TRUE]

getModisAlbedo(file, snow, no_snow, dataw, backupscale) ==
    \* lines 568-573 leave no_snow_mask unbound, so building retval at lines
    \* 625-628 raises, and line 631 answers for it
    IF dataw # None
    THEN errorResult([error |-> FALSE, limits |-> dataw.limits, mask |-> dataw.mask,
                      land |-> dataw.land, weight |-> dataw.weight,
                      snow_mask |-> dataw.snow_mask])
    \* lines 526, 579: SD.SD raises
    ELSE IF ~file.readable THEN errorResult([error |-> FALSE])
    \* line 586: the data file holds fewer samples or lines than the QA
    \* layers, and sds.get raises, with the QA layers read
    ELSE IF file.dataNs < file.ns \/ file.dataNl < file.nl
    THEN errorResult([error |-> FALSE, limits |-> <<0, file.ns, 0, file.nl>>,
                      land |-> [p \in Idx(file.ns, file.nl) |->
                                   landOf(file.pix[p].ancillary)]])
    ELSE LET P    == Idx(file.ns, file.nl)
             mask == Values([p \in P |-> goodDataOf(file.pix[p], snow, no_snow)])
         IN  [error        |-> FALSE,
              ns           |-> file.ns,
              nl           |-> file.nl,
              nb           |-> NBands,
              \* line 617
              land         |-> Values([p \in P |-> IF mask[p] THEN landOf(file.pix[p].ancillary)
                                                   ELSE 0]),
              \* lines 613, 618
              weight       |-> Values([p \in P |->
                                  IF mask[p]
                                  THEN RPow(backupscale, band_quality(file.pix[p].bandQuality))
                                  ELSE R(0)]),
              limits       |-> <<0, file.ns, 0, file.nl>>,
              \* lines 619-620
              snow_mask    |-> Values([p \in P |-> file.pix[p].snow = 1 /\ mask[p]]),
              no_snow_mask |-> Values([p \in P |-> file.pix[p].snow = 0 /\ mask[p]]),
              \* lines 581-591, 623: data[j, i] of parameter j, band i
              data         |-> Values([c \in (0 .. NParams - 1) \X (0 .. NBands - 1) \X
                                             (0 .. file.ns - 1) \X (0 .. file.nl - 1) |->
                                  maskData(Rat(file.pix[<<c[3], c[4]>>].d[c[1] + 1], oneScale),
                                           mask[<<c[3], c[4]>>])]),
              mask         |-> mask]

(***************************************************************************)
(* The decoded file as incrementSamples reads it (lines 717-736): the keys *)
(* N, isSnow and data[nb, ns, nl, 3].  getModisAlbedo names them weight,   *)
(* snow_mask / no_snow_mask and data[3, nb, ns, nl]; the conversion is not *)
(* part of this file, and is taken from the specification: N is the        *)
(* weight, isSnow the tri-state snow code (1 snow, 0 no snow, -1 no data). *)
(***************************************************************************)
asSamples(fs) ==
    [ns |-> fs.ns, nl |-> fs.nl, nb |-> fs.nb,
     N      |-> fs.weight,
     isSnow |-> Values([p \in Idx(fs.ns, fs.nl) |->
                           IF fs.snow_mask[p] THEN 1
                           ELSE IF fs.no_snow_mask[p] THEN 0
                           ELSE -1]),
     data   |-> Values([c \in CellsOf(PixIdx(fs.nb, fs.ns, fs.nl)) |->
                           fs.data[<<c[4], c[1], c[2], c[3]>>]])]

(***************************************************************************)
(* SpecDecode: getModisAlbedo on files of 2 x 2 pixels, and the decoded    *)
(* file accumulated as processAlbedo does (lines 885-887, 907-912) for one *)
(* coverage class.                                                         *)
(***************************************************************************)
\* what a pixel of the files can be
RawPixels ==
    << \* land 1 (low bits 7), no snow, best quality
       [quality |-> 0, snow |-> 0, ancillary |-> 23, bandQuality |-> 0,
        d |-> <<500, 100, 50>>],
       \* land 1, snow, qualities 1 and 2
       [quality |-> 0, snow |-> 1, ancillary |-> 16, bandQuality |-> 33,
        d |-> <<800, 0, 20>>],
       \* deep ocean, no snow
       [quality |-> 0, snow |-> 0, ancillary |-> 115, bandQuality |-> 0,
        d |-> <<300, 200, 100>>],
       \* deep ocean, snow, qualities 0 and 2
       [quality |-> 0, snow |-> 1, ancillary |-> 112, bandQuality |-> 32,
        d |-> <<400, 30, 10>>],
       \* fill in the snow layer
       [quality |-> 0, snow |-> 255, ancillary |-> 16, bandQuality |-> 0,
        d |-> <<600, 100, 50>>],
       \* duff value in the data
       [quality |-> 0, snow |-> 0, ancillary |-> 16, bandQuality |-> 0,
        d |-> <<200, 32767, 50>>],
       \* quality 4 in the second band
       [quality |-> 0, snow |-> 1, ancillary |-> 32, bandQuality |-> 64,
        d |-> <<700, 100, 50>>],
       \* land 1, no snow, qualities 3 and 0
       [quality |-> 0, snow |-> 0, ancillary |-> 16, bandQuality |-> 3,
        d |-> <<900, 50, 10>>],
       \* fill in the quality layer
       [quality |-> 255, snow |-> 0, ancillary |-> 16, bandQuality |-> 0,
        d |-> <<100, 100, 50>>],
       \* quality 5 in the first band
       [quality |-> 0, snow |-> 0, ancillary |-> 16, bandQuality |-> 5,
        d |-> <<150, 100, 50>>] >>

RawKinds == 1 .. 10

HdfOf(px) ==
    [readable |-> TRUE, ns |-> AccShape[1], nl |-> AccShape[2],
     dataNs |-> AccShape[1], dataNl |-> AccShape[2],
     pix |-> [p \in Idx(AccShape[1], AccShape[2]) |-> RawPixels[px[Flat(p)]]]]

\* the files: one that cannot be read, one whose data file is a line short
\* of the QA layers, and every choice of pixels up to their order
Hdfs ==
    {[readable |-> FALSE]} \cup
    {[HdfOf([i \in 1 .. AccShape[1] * AccShape[2] |-> 1]) EXCEPT !.dataNl = @ - 1]} \cup
    {HdfOf(px) : px \in {q \in [1 .. AccShape[1] * AccShape[2] -> RawKinds] :
                            \A i \in 1 .. AccShape[1] * AccShape[2] - 1 : q[i] <= q[i + 1]}}

\* backupscale
Bases == {Rat(1, 2), R(1)}

InitDecode ==
    /\ fdata = Unused /\ sdata = Unused /\ ret = Unused
    /\ minvar = 0 /\ maxvar = 0 /\ stats = Unused
    /\ NoDay /\ NoClasses /\ NoRun /\ NoDims
    /\ hdf \in Hdfs
    /\ opts \in [snow : BOOLEAN, no_snow : BOOLEAN, backupscale : Bases]
    /\ retval = Pending
    /\ sumData = Unused /\ shrink = 1 /\ cls = 0 /\ ncalls = 0 /\ last = Unused

\* the call with dataw = None
CallGetModisAlbedo ==
    /\ retval = Pending
    /\ retval' = getModisAlbedo(hdf, opts.snow, opts.no_snow, None, opts.backupscale)
    /\ UNCHANGED <<hdf, opts, shrunkVars, statVars, accVars, dayVars, clsVars, runVars, dimVars>>

\* the call with dataw the dictionary an earlier call returned
CallGetModisAlbedoDataw ==
    /\ retval # Pending /\ ~retval.error
    /\ retval' = getModisAlbedo(hdf, opts.snow, opts.no_snow, retval, opts.backupscale)
    /\ UNCHANGED <<hdf, opts, shrunkVars, statVars, accVars, dayVars, clsVars, runVars, dimVars>>

\* lines 885-887 and 907-912 for one class: the accumulator is allocated for
\* one file and the decoded file accumulated at index 0
AccumulateFileSample ==
    /\ retval # Pending /\ ~retval.error
    /\ ncalls = 0
    /\ \E isSnow \in {0, 1, 2}, shr \in AccShrinks :
         LET fresh == allocateData(retval.nb, retval.ns \div shr, retval.nl \div shr, 1, 0)
             r     == incrementSamples(fresh, asSamples(retval), isSnow, 0, shr)
         IN  /\ sumData' = IF r.err = NoErr THEN r.val ELSE fresh
             /\ last' = [samples |-> asSamples(retval), index |-> 0, err |-> r.err,
                         before |-> fresh]
             /\ cls' = isSnow
             /\ shrink' = shr
    /\ ncalls' = 1
    /\ UNCHANGED <<fdata, sdata, ret, minvar, maxvar, stats, dayVars, decVars, clsVars, runVars, dimVars>>

NextDecode == CallGetModisAlbedo \/ CallGetModisAlbedoDataw \/ AccumulateFileSample

SpecDecode == InitDecode /\ [][NextDecode]_vars

\* the call of getModisAlbedo returned a decoded file
Decoded == retval # Pending /\ ~retval.error
\* the decoded file has been accumulated
Accumulated == Decoded /\ ncalls = 1

(***************************************************************************)
(* Claims about getModisAlbedo.                                            *)
(***************************************************************************)
\* the pixels of the file whose land category is 7
DeepOcean == {p \in Idx(hdf.ns, hdf.nl) : landOf(hdf.pix[p].ancillary) = 7}

\* a pixel that is fill in every layer
FillPixel ==
    [quality |-> 255, snow |-> 255, ancillary |-> 255, bandQuality |-> 255,
     d |-> <<duff, duff, duff>>]

\* the file with its deep ocean pixels replaced by fill
WithoutDeepOcean ==
    [hdf EXCEPT !.pix = [p \in DOMAIN @ |-> IF p \in DeepOcean THEN FillPixel ELSE @[p]]]

(* C17: a pixel whose land category (bits 4-7 of the ancillary layer) is 7 *)
(* has mask false and weight 0 in the decoded file, whatever snow, no_snow *)
(* and backupscale are, and adds nothing to the accumulator of any         *)
(* coverage class at any shrink factor: the accumulator holds what it      *)
(* holds for the file with those pixels replaced by fill.                  *)
C17_DeepOceanAddsNothing ==
    /\ Decoded =>
          \A p \in DeepOcean : ~retval.mask[p] /\ retval.weight[p] = R(0)
    /\ Accumulated =>
          LET other == getModisAlbedo(WithoutDeepOcean, opts.snow, opts.no_snow, None,
                                      opts.backupscale)
              r     == incrementSamples(last.before, asSamples(other), cls, 0, shrink)
          IN  /\ ~other.error
              /\ last.err = r.err
              /\ sumData = IF r.err = NoErr THEN r.val ELSE last.before

\* C17 witness: a file with a deep ocean pixel was decoded and accumulated,
\* and the call stored something
C17_Witness ==
    /\ Accumulated
    /\ DeepOcean # {}
    /\ last.err = NoErr
    /\ sumData # last.before

\* the cells <<parameter, band>> of the data of a pixel
DataOf(p) ==
    {retval.data[<<j, b, p[1], p[2]>>] : j \in 0 .. NParams - 1, b \in 0 .. retval.nb - 1}

(* C18: in every dictionary getModisAlbedo returns without error, for      *)
(* every pixel, band and parameter: mask false implies weight = 0 and      *)
(* data = 0, and weight = 0 implies data = 0.                              *)
C18_MaskedIsZero ==
    Decoded =>
        \A p \in Idx(retval.ns, retval.nl) :
            /\ ~retval.mask[p] => (retval.weight[p] = R(0) /\ DataOf(p) = {R(0)})
            /\ retval.weight[p] = R(0) => DataOf(p) = {R(0)}

\* C18 witness: a decoded file holds a masked pixel whose data the file gives
\* as numbers other than 0, and a pixel that is not masked
C18_Witness ==
    /\ Decoded
    /\ \E p \in Idx(retval.ns, retval.nl) :
         /\ ~retval.mask[p]
         /\ \A j \in 1 .. NParams : hdf.pix[p].d[j] \notin {0, duff}
    /\ \E p \in Idx(retval.ns, retval.nl) : retval.mask[p]

(* C19: after any sequence of calls of incrementSamples on an accumulator, *)
(* for every slot, band, reduced cell and parameter: the stored weight     *)
(* being 0 implies the stored data being 0.                                *)
C19_ZeroWeightZeroData ==
    \A f \in DOMAIN sumData.n :
        \A c \in DOMAIN sumData.n[f] :
            RIsZero(sumData.n[f][c]) => RIsZero(sumData.data[f][c])

\* C19 witness: a call stored a slot with a cell of positive weight and a
\* cell of weight 0 all of whose pixels hold data other than 0 in the sample
C19_Witness ==
    /\ LastStored
    /\ \E c \in DOMAIN sumData.n[last.index] : RPos(sumData.n[last.index][c])
    /\ \E c \in DOMAIN sumData.n[last.index] :
         /\ RIsZero(sumData.n[last.index][c])
         /\ \A p \in Block(c[2], c[3], shrink, shrink) :
              ~RIsZero(last.samples.data[<<c[1], p[1], p[2], c[4]>>])

\* the weight of pixel p of the last sample that the coverage class keeps:
\* no snow only (0), snow only (1), both (2)
Kept(p) ==
    IF \/ cls = 0 /\ last.samples.isSnow[p] = 0
       \/ cls = 1 /\ last.samples.isSnow[p] = 1
       \/ cls = 2 /\ last.samples.isSnow[p] \in {0, 1}
    THEN last.samples.N[p]
    ELSE R(0)

\* the pixels of the last sample with the kept weight
KeptN ==
    Arr(last.samples.ns, last.samples.nl,
        [p \in Idx(last.samples.ns, last.samples.nl) |-> Kept(p)])

(* C20: incrementSamples filters by coverage class before it stores: for   *)
(* no snow only every pixel whose snow code is not no-snow gets weight 0,  *)
(* for snow only every pixel whose snow code is not snow, for the combined *)
(* class exactly the pixels with the no-data code, and every other pixel   *)
(* keeps the weight of the sample.  So after a call that did not raise,    *)
(* on a sample with weight left, every reduced cell of the slot stores the *)
(* shrunk kept weight (the mean of the non-zero kept weights of its        *)
(* block).                                                                 *)
C20_CoverageFilter ==
    (Called /\ last.err = NoErr /\ \E p \in DOMAIN KeptN.v : RPos(Kept(p))) =>
        \A c \in DOMAIN sumData.n[last.index] :
            sumData.n[last.index][c] =
                NonZeroMeanOver(KeptN, Block(c[2], c[3], shrink, shrink))

\* C20 witness: a call stored a sample of which the class dropped a pixel of
\* positive weight and kept another
C20_Witness ==
    /\ Called /\ last.err = NoErr
    /\ \E p \in DOMAIN KeptN.v : RPos(Kept(p))
    /\ \E p \in DOMAIN KeptN.v : RPos(last.samples.N[p]) /\ RIsZero(Kept(p))
    /\ sumData # last.before

\* the last sample has no pixel of positive weight left after the coverage
\* filter (lines 722-734) and the safety filter (lines 736-743)
LastEmpty ==
    \A p \in DOMAIN LastN : RIsZero(LastN[p]) \/ p \in LastCorrupt

(* C21: a call of incrementSamples with a sample that has no pixel of      *)
(* positive weight after the coverage filter and the safety filter returns *)
(* without error and leaves the whole accumulator (the weight, the sample  *)
(* count and the data of every slot) unchanged.                            *)
C21_EmptySampleIsNoOp ==
    (Called /\ LastEmpty) => (last.err = NoErr /\ sumData = last.before)

\* the two 4-bit quality exponents of pixel p of the file: bits 0-3 and
\* bits 4-7 of the band-quality layer
Exponents(p) ==
    {hdf.pix[p].bandQuality % 16, (hdf.pix[p].bandQuality \div 16) % 16}

\* the larger of them
WorstExponent(p) == CHOOSE e \in Exponents(p) : \A o \in Exponents(p) : o <= e

(* C22: in a decoded file every valid pixel has weight = backupscale ** e, *)
(* with e the larger of the two 4-bit quality exponents and e in 0 .. 3;   *)
(* for backupscale in (0, 1] every weight lies in [0, 1], a valid pixel of *)
(* larger e has no larger weight, and the weight is 0 at invalid pixels.   *)
C22_WeightIsBasePowerWorst ==
    Decoded =>
        /\ \A p \in Idx(retval.ns, retval.nl) :
             /\ retval.mask[p] =>
                   /\ WorstExponent(p) \in 0 .. 3
                   /\ retval.weight[p] = RPow(opts.backupscale, WorstExponent(p))
             /\ ~retval.mask[p] => retval.weight[p] = R(0)
             /\ RLe(R(0), retval.weight[p]) /\ RLe(retval.weight[p], R(1))
        /\ \A p, q \in Idx(retval.ns, retval.nl) :
             (retval.mask[p] /\ retval.mask[q] /\ WorstExponent(p) <= WorstExponent(q))
                 => RLe(retval.weight[q], retval.weight[p])

\* C22 witness: a decoded file with backupscale below 1 holds valid pixels
\* of different worst exponents, one of them with the second exponent the
\* larger, and an invalid pixel
C22_Witness ==
    /\ Decoded
    /\ RLt(opts.backupscale, R(1))
    /\ \E p, q \in Idx(retval.ns, retval.nl) :
         /\ retval.mask[p] /\ retval.mask[q]
         /\ WorstExponent(p) < WorstExponent(q)
         /\ (hdf.pix[q].bandQuality \div 16) % 16 > hdf.pix[q].bandQuality % 16
    /\ \E p \in Idx(retval.ns, retval.nl) : ~retval.mask[p]

(* C23: getModisAlbedo marks a pixel invalid (mask false) whenever the     *)
(* quality layer is 255, or the snow layer is 255, or either of the two    *)
(* 4-bit quality exponents of the band-quality layer is >= 4.              *)
C23_FillAndPoorQualityInvalid ==
    Decoded =>
        \A p \in Idx(retval.ns, retval.nl) :
            (\/ hdf.pix[p].quality = 255
             \/ hdf.pix[p].snow = 255
             \/ \E e \in Exponents(p) : e >= 4) => ~retval.mask[p]

\* C23 witness: a decoded file, read for snow and no snow alike, holds four
\* invalid pixels, each for one of the four reasons alone
C23_Witness ==
    /\ Decoded
    /\ opts.snow /\ opts.no_snow
    /\ \E p \in Idx(retval.ns, retval.nl) :
         ~retval.mask[p] /\ hdf.pix[p].quality = 255 /\ hdf.pix[p].snow # 255
                         /\ \A e \in Exponents(p) : e < 4
    /\ \E p \in Idx(retval.ns, retval.nl) :
         ~retval.mask[p] /\ hdf.pix[p].quality # 255 /\ hdf.pix[p].snow = 255
                         /\ \A e \in Exponents(p) : e < 4
    /\ \E p \in Idx(retval.ns, retval.nl) :
         ~retval.mask[p] /\ hdf.pix[p].quality # 255 /\ hdf.pix[p].snow # 255
                         /\ hdf.pix[p].bandQuality % 16 >= 4
    /\ \E p \in Idx(retval.ns, retval.nl) :
         ~retval.mask[p] /\ hdf.pix[p].quality # 255 /\ hdf.pix[p].snow # 255
                         /\ hdf.pix[p].bandQuality % 16 < 4
                         /\ (hdf.pix[p].bandQuality \div 16) % 16 >= 4

\* the call of getModisAlbedo returned, and reported an error
DecodeFailed == retval # Pending /\ retval.error

(* C24: when decoding a file fails (for instance a data layer whose shape  *)
(* does not cover the extent of the QA layers), getModisAlbedo returns an  *)
(* error result that carries no mask, weight, land, snow or data: no       *)
(* partial decoded file is returned, and no exception leaves the call.     *)
C24_FailureReturnsErrorOnly ==
    /\ retval # Pending => "error" \in DOMAIN retval
    /\ DecodeFailed => DOMAIN retval = {"error"}

\* C24 witness: the call failed on a readable file whose data layers are
\* short of the extent of the QA layers
C24_Witness ==
    /\ DecodeFailed
    /\ hdf.readable
    /\ hdf.dataNl < hdf.nl

(***************************************************************************)
(* SpecClasses: one decoded file accumulated at index 0 for the three      *)
(* coverage classes (the calls of lines 911-916), in any order.  thisData  *)
(* is the dictionary handed to incrementSamples: the model follows what a  *)
(* call does to it, as it follows what it does to the accumulator.         *)
(***************************************************************************)
\* mutant of samplesAfter: samplesN is samples['N'] itself, not its copy
samplesAliased(samples, samplesN) == [samples EXCEPT !.N = samplesN]

\* lines 732-743: samplesN is a copy, samples['data'] * weight (line 763) a
\* new array: the dictionary is as it was, whatever samplesN has become
samplesAfter(samples, samplesN) == samples

\* lines 732-743: samplesN as the two filters leave it
samplesNOf(samples, isSnow) ==
    [p \in Idx(samples.ns, samples.nl) |->
        IF p \in zeroF0(samples, filteredN(samples, isSnow)) THEN R(0)
        ELSE filteredN(samples, isSnow)[p]]

\* the accumulator of lines 885-887 for one file
FreshClass == allocateData(NBands, AccShape[1] \div shrink, AccShape[2] \div shrink, 1, 0)

InitClasses ==
    /\ fdata = Unused /\ sdata = Unused /\ ret = Unused
    /\ sumData = Unused /\ minvar = 0 /\ maxvar = 0 /\ stats = Unused
    /\ cls = 0 /\ ncalls = 0 /\ last = Unused
    /\ NoFile /\ NoRun /\ NoDims
    /\ a1Files = <<>> /\ legacy = FALSE /\ dont = Unused /\ pc = "unused"
    /\ thisOne = 0 /\ iFile = 0 /\ totalSnow = 0 /\ land = Unused
    /\ result = Unused /\ day = "unused"
    /\ shrink \in AccShrinks
    /\ given \in Samples
    /\ thisData = given
    /\ sumDataSnow = FreshClass /\ sumDataNoSnow = FreshClass /\ sumDataWithSnow = FreshClass
    /\ classesDone = <<>>

\* what a call for class c does to its accumulator acc, and to thisData
accumulateClass(c, acc) ==
    LET r == incrementSamples(acc, thisData, c, 0, shrink)
    IN  [acc  |-> IF r.err = NoErr THEN r.val ELSE acc,
         err  |-> r.err,
         data |-> samplesAfter(thisData, samplesNOf(thisData, c))]

\* line 912
accumulateSnow ==
    /\ 1 \notin DOMAIN classesDone
    /\ sumDataSnow' = accumulateClass(1, sumDataSnow).acc
    /\ thisData' = accumulateClass(1, sumDataSnow).data
    /\ classesDone' = classesDone @@ (1 :> accumulateClass(1, sumDataSnow).err)
    /\ UNCHANGED <<sumDataNoSnow, sumDataWithSnow>>
    /\ UNCHANGED <<a1Files, legacy, dont, pc, thisOne, iFile, totalSnow, land, result, day>>
    /\ UNCHANGED <<shrunkVars, statVars, accVars, decVars, given, runVars, dimVars>>

\* line 914
accumulateNoSnow ==
    /\ 0 \notin DOMAIN classesDone
    /\ sumDataNoSnow' = accumulateClass(0, sumDataNoSnow).acc
    /\ thisData' = accumulateClass(0, sumDataNoSnow).data
    /\ classesDone' = classesDone @@ (0 :> accumulateClass(0, sumDataNoSnow).err)
    /\ UNCHANGED <<sumDataSnow, sumDataWithSnow>>
    /\ UNCHANGED <<a1Files, legacy, dont, pc, thisOne, iFile, totalSnow, land, result, day>>
    /\ UNCHANGED <<shrunkVars, statVars, accVars, decVars, given, runVars, dimVars>>

\* line 916
accumulateWithSnow ==
    /\ 2 \notin DOMAIN classesDone
    /\ sumDataWithSnow' = accumulateClass(2, sumDataWithSnow).acc
    /\ thisData' = accumulateClass(2, sumDataWithSnow).data
    /\ classesDone' = classesDone @@ (2 :> accumulateClass(2, sumDataWithSnow).err)
    /\ UNCHANGED <<sumDataSnow, sumDataNoSnow>>
    /\ UNCHANGED <<a1Files, legacy, dont, pc, thisOne, iFile, totalSnow, land, result, day>>
    /\ UNCHANGED <<shrunkVars, statVars, accVars, decVars, given, runVars, dimVars>>

NextClasses == accumulateSnow \/ accumulateNoSnow \/ accumulateWithSnow

SpecClasses == InitClasses /\ [][NextClasses]_vars

\* class c of the given file accumulated alone into a fresh accumulator
Alone(c) == incrementSamples(FreshClass, given, c, 0, shrink)

(* C25: incrementSamples does not modify the decoded file it is given (its *)
(* weight, snow code and data are unchanged afterwards), so accumulating   *)
(* the same file for the snow, the no-snow and the combined class gives    *)
(* each class the same result in whatever order the three calls are made,  *)
(* and a call for one class leaves the accumulators of the other two       *)
(* unchanged.                                                              *)
C25_SampleAndOtherClassesUntouched ==
    /\ thisData = given
    /\ \A c \in {0, 1, 2} :
         IF c \in DOMAIN classesDone
         THEN /\ classesDone[c] = Alone(c).err
              /\ SumDataOf(c) = IF Alone(c).err = NoErr THEN Alone(c).val ELSE FreshClass
         ELSE SumDataOf(c) = FreshClass

\* C25 witness: the three calls were made, each stored something different,
\* and the first two filtered pixels of positive weight out of the file
C25_Witness ==
    /\ DOMAIN classesDone = {0, 1, 2}
    /\ \A c \in {0, 1, 2} : classesDone[c] = NoErr /\ SumDataOf(c) # FreshClass
    /\ sumDataSnow # sumDataNoSnow /\ sumDataSnow # sumDataWithSnow
    /\ sumDataNoSnow # sumDataWithSnow
    /\ \A c \in {0, 1} : filteredN(given, c) # given.N

\* the three calls were made and returned
AllClassesStored ==
    /\ DOMAIN classesDone = {0, 1, 2}
    /\ \A c \in {0, 1, 2} : classesDone[c] = NoErr

(* C26: with shrink factor 1 and snow codes in {-1, 0, 1}, when one file   *)
(* is accumulated at the same index into fresh snow, no-snow and combined  *)
(* accumulators and the three calls complete, then at every pixel the      *)
(* weight of the combined slot is the weight of the snow slot plus the     *)
(* weight of the no-snow slot, and likewise for the sample count.          *)
C26_CombinedIsSnowPlusNoSnow ==
    (AllClassesStored /\ shrink = 1) =>
        /\ \A c \in DOMAIN sumDataWithSnow.n[0] :
             sumDataWithSnow.n[0][c] = RAdd(sumDataSnow.n[0][c], sumDataNoSnow.n[0][c])
        /\ \A p \in DOMAIN sumDataWithSnow.nSamples[0] :
             sumDataWithSnow.nSamples[0][p] =
                 sumDataSnow.nSamples[0][p] + sumDataNoSnow.nSamples[0][p]

\* C26 witness: the three calls completed at shrink factor 1 on a file with
\* a snow pixel, a no-snow pixel and a weighted pixel without snow code
C26_Witness ==
    /\ AllClassesStored /\ shrink = 1
    /\ \E p \in DOMAIN sumDataSnow.nSamples[0] : sumDataSnow.nSamples[0][p] = 1
    /\ \E p \in DOMAIN sumDataNoSnow.nSamples[0] : sumDataNoSnow.nSamples[0][p] = 1
    /\ \E p \in DOMAIN given.N : given.isSnow[p] = -1 /\ RPos(given.N[p])

RECURSIVE NSnowUpTo(_)
\* the sum of nSnow over the files 0 .. n - 1 that decode
NSnowUpTo(n) ==
    IF n = 0 THEN 0
    ELSE NSnowUpTo(n - 1) + (IF Decodes(n - 1) THEN a1Files[n].nSnow ELSE 0)

RunDays == [cached : BOOLEAN, outcome : {"processed", "skipped", "raised"}]

InitRunAll ==
    /\ fdata = Unused /\ sdata = Unused /\ ret = Unused
    /\ sumData = Unused /\ minvar = 0 /\ maxvar = 0 /\ stats = Unused
    /\ cls = 0 /\ ncalls = 0 /\ last = Unused /\ shrink = 1
    /\ NoFile /\ NoClasses /\ NoDims
    /\ a1Files = <<>> /\ legacy = FALSE
    /\ thisOne = 0 /\ thisData = Unused /\ iFile = 0 /\ totalSnow = 0 /\ land = Unused
    /\ sumDataSnow = Unused /\ sumDataNoSnow = Unused /\ sumDataWithSnow = Unused
    /\ result = Unused /\ day = "unused"
    /\ dont \in [dontsnow : {0, 1}, dontnosnow : {0, 1}, dontwithsnow : {0, 1}]
    /\ clean \in BOOLEAN
    /\ doyList \in UNION {[1 .. n -> RunDays] : n \in 0 .. MaxDays}
    \* line 1299
    /\ ok = TRUE
    /\ doyIdx = 0 /\ pc = "loop"
    /\ invoked = {} /\ written = {}

\* lines 1306-1336: ok after the attempt to read the day's stored output
okAfterRead(isClean, enabled, cached, okBefore) ==
    IF ~isClean /\ enabled # {} /\ ~cached THEN FALSE ELSE okBefore

\* lines 1300-1379: the body of the loop for the next day
forDoy ==
    /\ pc = "loop" /\ doyIdx < Len(doyList)
    /\ LET d == doyList[doyIdx + 1]
       IN  /\ ok' = okAfterRead(clean, EnabledClasses, d.cached, ok)
           \* line 1339
           /\ IF ok'
              THEN /\ doyIdx' = doyIdx + 1
                   /\ UNCHANGED <<invoked, written, pc>>
              \* lines 1350-1351
              ELSE /\ invoked' = invoked \cup {doyIdx}
                   /\ IF d.outcome = "raised"
                      THEN pc' = "raised" /\ UNCHANGED <<doyIdx, written>>
                      \* lines 1353-1379
                      ELSE /\ written' = IF d.outcome = "processed"
                                         THEN written \cup {<<doyIdx, c>> : c \in EnabledClasses}
                                         ELSE written
                           /\ doyIdx' = doyIdx + 1
                           /\ UNCHANGED pc
    /\ UNCHANGED <<clean, doyList>>
    /\ UNCHANGED <<a1Files, legacy, dont, thisOne, thisData, iFile, totalSnow, land,
                   sumDataSnow, sumDataNoSnow, sumDataWithSnow, result, day>>
    /\ UNCHANGED <<shrunkVars, statVars, accVars, decVars, clsVars, dimVars>>

\* the loop of line 1300 has no day left
endRunAll ==
    /\ pc = "loop" /\ doyIdx = Len(doyList)
    /\ pc' = "done"
    /\ UNCHANGED <<a1Files, legacy, dont, thisOne, thisData, iFile, totalSnow, land,
                   sumDataSnow, sumDataNoSnow, sumDataWithSnow, result, day>>
    /\ UNCHANGED <<shrunkVars, statVars, accVars, decVars, clsVars, runVars, dimVars>>

NextRunAll == forDoy \/ endRunAll

SpecRunAll == InitRunAll /\ [][NextRunAll]_vars

\* the days of the run
DayIdx == 0 .. Len(doyList) - 1

(* C28: in runAll, when clean is set (stored outputs are not to be         *)
(* reused), every day of the day list is processed from the source files:  *)
(* processAlbedo is called for it and, if it reports processed, the        *)
(* enabled classes are finalized and written.                              *)
C28_CleanProcessesEveryDay ==
    (pc = "done" /\ clean) =>
        \A i \in DayIdx :
            /\ i \in invoked
            /\ doyList[i + 1].outcome = "processed" =>
                  \A c \in EnabledClasses : <<i, c>> \in written

(***************************************************************************)
(* sortDims(ip, op), lines 412-458: ip is <<s0, ns, l0, nl>> as asked for  *)
(* (-1 for unset), op is <<s0, send, l0, lend>> of the file; the result is *)
(* <<s0, ns, l0, nl>>.                                                     *)
(***************************************************************************)
Max(a, b) == IF a >= b THEN a ELSE b
Min(a, b) == IF a <= b THEN a ELSE b

sortDims(ipArg, opArg) ==
    LET \* lines 439-443
        s0a == Max(ipArg[1], opArg[1])
        \* lines 445-448
        nsa == IF ipArg[2] # -1 THEN ipArg[2] ELSE opArg[2] - opArg[1]
        nla == IF ipArg[4] # -1 THEN ipArg[4] ELSE opArg[4] - opArg[3]
        \* line 450
        l0a == Max(ipArg[3], opArg[3])
        \* lines 451-452
        s0  == Min(Max(0, s0a), opArg[2])
        l0  == Min(Max(0, l0a), opArg[4])
        \* lines 454-455
        ns  == Max(Min(nsa, opArg[2] - opArg[1] - s0), 1)
        nl  == Max(Min(nla, opArg[4] - opArg[3] - l0), 1)
    IN  <<s0, ns, l0, nl>>

(***************************************************************************)
(* SpecDims: sortDims on every small request and file extent, as           *)
(* getModisAlbedo calls it (lines 528-530: op is <<0, ns, 0, nl>>).        *)
(***************************************************************************)
InitDims ==
    /\ fdata = Unused /\ sdata = Unused /\ ret = Unused
    /\ sumData = Unused /\ minvar = 0 /\ maxvar = 0 /\ stats = Unused
    /\ cls = 0 /\ ncalls = 0 /\ last = Unused /\ shrink = 1
    /\ NoDay /\ NoFile /\ NoClasses /\ NoRun
    /\ ip \in [1 .. 4 -> -1 .. MaxExtent + 1]
    /\ \E NS, NL \in 1 .. MaxExtent : op = <<0, NS, 0, NL>>
    /\ dims = Pending

CallSortDims ==
    /\ dims = Pending
    /\ dims' = sortDims(ip, op)
    /\ UNCHANGED <<ip, op>>
    /\ UNCHANGED <<shrunkVars, statVars, accVars, dayVars, decVars, clsVars, runVars>>

NextDims == CallSortDims

SpecDims == InitDims /\ [][NextDims]_vars

(* C29: for any requested sub-region ip = <<s0, ns, l0, nl>> (-1 meaning   *)
(* unset) and any file extent <<0, NS, 0, NL>> with NS, NL >= 1, sortDims  *)
(* returns a window <<s0', ns', l0', nl'>> inside the file: s0' >= 0,      *)
(* ns' >= 1, s0' + ns' <= NS, l0' >= 0, nl' >= 1, l0' + nl' <= NL.         *)
C29_WindowInsideFile ==
    dims # Pending =>
        /\ dims[1] >= 0 /\ dims[2] >= 1 /\ dims[1] + dims[2] <= op[2]
        /\ dims[3] >= 0 /\ dims[4] >= 1 /\ dims[3] + dims[4] <= op[4]

=============================================================================
